---- MODULE Spec2Model ----
(***************************************************************************)
(* Model of the Dewatermark client (src/src/index.ts): one instance, two   *)
(* operations (eraseWatermark, saveLargeImage).  Each operation builds a   *)
(* multipart form synchronously, issues one POST, and resumes when the     *)
(* promise of that POST settles.                                           *)
(*                                                                         *)
(* A JavaScript string is a sequence of text atoms (single characters for  *)
(* paths, base64 text and file names; whole words for messages); string    *)
(* concatenation is \o.  A Buffer is a sequence of bytes (0..255).         *)
(***************************************************************************)
EXTENDS Integers, Sequences, FiniteSets, TLC

\* Longest image-source string (path or base64 text) the callers pass.
MaxStrLen == 3

\* The two calls issued on the one instance.
Calls == {1, 2}

\* Characters of image-source strings: a base64 letter (also a file-name
\* letter), the path separator (also a base64 digit), and the dot (an
\* extension separator, not a base64 digit).
Alphabet == {"a", "/", "."}

----------------------------------------------------------------------------
(* Values *)

\* A possibly-absent string | Buffer (the optional fields of the option
\* interfaces, and the fields of a JSON body).  s is the text of a string,
\* b the bytes of a Buffer.
Undef == [tag |-> "undefined", s |-> <<>>, b |-> <<>>]
Str(s) == [tag |-> "string", s |-> s, b |-> <<>>]
Buf(b) == [tag |-> "buffer", s |-> <<>>, b |-> b]

\* A possibly-absent boolean (removeText?: boolean).
NoBool == [tag |-> "undefined", v |-> FALSE]
Bool(v) == [tag |-> "boolean", v |-> v]

\* JavaScript truthiness of a string | Buffer | undefined: undefined and the
\* empty string are falsy, every object (a Buffer, even an empty one) is truthy.
Truthy(v) == v.tag = "buffer" \/ (v.tag = "string" /\ v.s # <<>>)

\* Buffer.isBuffer(v)
IsBuffer(v) == v.tag = "buffer"

\* typeof v === 'string'
IsString(v) == v.tag = "string"

RECURSIVE StringsOfLen(_)
StringsOfLen(n) ==
    IF n = 0 THEN {<<>>}
    ELSE {Append(s, ch) : s \in StringsOfLen(n - 1), ch \in Alphabet}

Strings == UNION {StringsOfLen(n) : n \in 0..MaxStrLen}

Max(S) == CHOOSE x \in S : \A y \in S : y <= x

\* s contains t as a contiguous substring (String.prototype.includes).
Contains(s, t) ==
    \E i \in 0..(Len(s) - Len(t)) : SubSeq(s, i + 1, i + Len(t)) = t

----------------------------------------------------------------------------
(* Literals of the source *)

eraseUrl == "https://platform.dewatermark.ai/api/object_removal/v1/erase_watermark"
saveLargeImageUrl == "https://platform.dewatermark.ai/api/object_removal/v1/save_large_image"

ImagePng == <<"i", "m", "a", "g", "e", ".", "p", "n", "g">>
MaskBaseJpeg == <<"m", "a", "s", "k", "_", "b", "a", "s", "e", ".", "j", "p", "e", "g">>
MaskBrushPng == <<"m", "a", "s", "k", "_", "b", "r", "u", "s", "h", ".", "p", "n", "g">>
PreviewImageJpeg == <<"preview_image_to_save", ".", "j", "p", "e", "g">>
PreviewMaskJpeg == <<"preview_mask_to_save", ".", "j", "p", "e", "g">>
TrueText == <<"t", "r", "u", "e">>
FalseText == <<"f", "a", "l", "s", "e">>
ConfigMessage == <<"Either", "originalPreviewImage", "or", "sessionId", "must", "be", "provided">>
ApiErrorPrefix == <<"API", "Error:">>

----------------------------------------------------------------------------
(* Payload builder *)

\* The value of a base64 digit; characters outside the base64 alphabet carry
\* none and are skipped by the decoder.
IsBase64Digit(ch) == ch \in {"a", "/"}
Sextet(ch) == IF ch = "a" THEN 26 ELSE 63

RECURSIVE Sextets(_)
Sextets(s) ==
    IF s = <<>> THEN <<>>
    ELSE IF IsBase64Digit(Head(s)) THEN <<Sextet(Head(s))>> \o Sextets(Tail(s))
    ELSE Sextets(Tail(s))

\* Groups of four 6-bit digits give three bytes; a trailing group of two gives
\* one byte, of three gives two bytes, and a single trailing digit gives none.
RECURSIVE BytesOf(_)
BytesOf(x) ==
    IF Len(x) < 2 THEN <<>>
    ELSE LET b1 == x[1] * 4 + x[2] \div 16 IN
         IF Len(x) = 2 THEN <<b1>>
         ELSE LET b2 == (x[2] % 16) * 16 + x[3] \div 4 IN
              IF Len(x) = 3 THEN <<b1, b2>>
              ELSE <<b1, b2, (x[3] % 4) * 64 + x[4]>>
                       \o BytesOf(SubSeq(x, 5, Len(x)))

\* Buffer.from(s, 'base64')
Base64Decode(s) == BytesOf(Sextets(s))

\* path.split('/').pop(): the text after the last '/', the whole text when
\* there is none.
LastSegment(path) ==
    LET slashes == {i \in 1..Len(path) : path[i] = "/"} IN
    IF slashes = {} THEN path ELSE SubSeq(path, Max(slashes) + 1, Len(path))

\* Faulty variant of FileNameOf: the whole path is used as the file name.
FileNameWholePath(path, fallback) ==
    IF path # <<>> THEN path ELSE fallback

\* path.split('/').pop() || fallback
FileNameOf(path, fallback) ==
    IF LastSegment(path) # <<>> THEN LastSegment(path) ELSE fallback

\* One part of the multipart form.  kind "stream": the bytes of the file at
\* path, read when the request is sent; "buffer": bytes; "text": a plain
\* text field.
StreamPart(name, path, filename) ==
    [path |-> path,
     name |-> name,
     filename |-> filename,
     kind |-> "stream",
     bytes |-> <<>>,
     text |-> <<>>]
BufferPart(name, bytes, filename) ==
    [path |-> <<>>,
     name |-> name,
     filename |-> filename,
     kind |-> "buffer",
     bytes |-> bytes,
     text |-> <<>>]
TextPart(name, text) ==
    [path |-> <<>>,
     name |-> name,
     filename |-> <<>>,
     kind |-> "text",
     bytes |-> <<>>,
     text |-> text]

\* The image-source branch of both operations: an existing path is streamed
\* under its final segment; anything else is a Buffer, or base64 text that is
\* decoded, under image.png.  exists is fs.existsSync(image).
ImagePart(name, image, exists) ==
    IF IsString(image) /\ exists
    THEN StreamPart(name, image.s, FileNameOf(image.s, ImagePng))
    ELSE BufferPart(name,
                    IF IsBuffer(image) THEN image.b ELSE Base64Decode(image.s),
                    ImagePng)

\* A base64 field: Buffer.from(text, 'base64') under a fixed file name.
Base64Part(name, v, filename) == BufferPart(name, Base64Decode(v.s), filename)

\* Faulty variant of RemoveTextValue: removeText ? 'true' : 'false', which
\* sends "false" for an unset flag.
RemoveTextValueFalsy(removeText) ==
    IF removeText.tag = "boolean" /\ removeText.v THEN TrueText ELSE FalseText

\* options.removeText?.toString() ?? 'true'
RemoveTextValue(removeText) ==
    IF removeText.tag = "undefined" THEN TrueText
    ELSE IF removeText.v THEN TrueText ELSE FalseText

\* The option object of a call.  The two option interfaces are kept in one
\* record; an operation reads only its own fields.
Options(opi, oli, mb, mbr, pis, pms, sid, rt) ==
    [removeText |-> rt,
     originalPreviewImage |-> opi,
     originalLargeImage |-> oli,
     maskBase |-> mb,
     maskBrush |-> mbr,
     previewImageToSave |-> pis,
     previewMaskToSave |-> pms,
     sessionId |-> sid]

\* Faulty variant of EraseImageRef: the final else branch does not throw.
EraseImageRefUnchecked(options, exists) ==
    IF Truthy(options.originalPreviewImage)
    THEN [ok |-> TRUE,
          parts |-> <<ImagePart("original_preview_image",
                                options.originalPreviewImage, exists)>>]
    ELSE IF Truthy(options.sessionId)
    THEN [ok |-> TRUE, parts |-> <<TextPart("session_id", options.sessionId.s)>>]
    ELSE [ok |-> TRUE, parts |-> <<>>]

\* Faulty variant of EraseImageRef: session_id is appended whenever it is
\* set, as saveLargeImage does, instead of only without an image.
EraseImageRefBoth(options, exists) ==
    LET image == IF Truthy(options.originalPreviewImage)
                 THEN <<ImagePart("original_preview_image",
                                  options.originalPreviewImage, exists)>>
                 ELSE <<>>
        session == IF Truthy(options.sessionId)
                   THEN <<TextPart("session_id", options.sessionId.s)>>
                   ELSE <<>>
    IN [ok |-> image \o session # <<>>, parts |-> image \o session]

\* eraseWatermark, the image reference: [ok, parts].  ok = FALSE is the throw
\* of the configuration error.
EraseImageRef(options, exists) ==
    IF Truthy(options.originalPreviewImage)
    THEN [ok |-> TRUE,
          parts |-> <<ImagePart("original_preview_image",
                                options.originalPreviewImage, exists)>>]
    ELSE IF Truthy(options.sessionId)
    THEN [ok |-> TRUE, parts |-> <<TextPart("session_id", options.sessionId.s)>>]
    ELSE [ok |-> FALSE, parts |-> <<>>]

\* eraseWatermark, everything appended after the image reference.
EraseRest(options) ==
    (IF Truthy(options.maskBase)
     THEN <<Base64Part("mask_base", options.maskBase, MaskBaseJpeg)>>
     ELSE <<>>)
    \o (IF Truthy(options.maskBrush)
        THEN <<StreamPart("mask_brush", options.maskBrush.s,
                          FileNameOf(options.maskBrush.s, MaskBrushPng))>>
        ELSE <<>>)
    \o <<TextPart("remove_text", RemoveTextValue(options.removeText))>>

\* The form data eraseWatermark has built when it reaches axios.post.
EraseForm(options, exists) ==
    LET ref == EraseImageRef(options, exists) IN
    IF ref.ok THEN [ok |-> TRUE, parts |-> ref.parts \o EraseRest(options)]
    ELSE ref

\* Faulty variant of SaveForm: the precondition of eraseWatermark is enforced
\* here too, and a call with neither an image nor a session id throws.
SaveFormChecked(options, exists) ==
    IF Truthy(options.originalLargeImage) \/ Truthy(options.sessionId)
    THEN [ok |-> TRUE,
          parts |->
             (IF Truthy(options.originalLargeImage)
              THEN <<ImagePart("original_large_image",
                               options.originalLargeImage, exists)>>
              ELSE <<>>)
             \o (IF Truthy(options.sessionId)
                 THEN <<TextPart("session_id", options.sessionId.s)>>
                 ELSE <<>>)
             \o <<TextPart("remove_text", RemoveTextValue(options.removeText))>>]
    ELSE [ok |-> FALSE, parts |-> <<>>]

\* The form data saveLargeImage has built when it reaches axios.post.
SaveForm(options, exists) ==
    [ok |-> TRUE,
     parts |->
        (IF Truthy(options.originalLargeImage)
         THEN <<ImagePart("original_large_image",
                          options.originalLargeImage, exists)>>
         ELSE <<>>)
        \o (IF Truthy(options.previewImageToSave)
            THEN <<Base64Part("preview_image_to_save",
                              options.previewImageToSave, PreviewImageJpeg)>>
            ELSE <<>>)
        \o (IF Truthy(options.previewMaskToSave)
            THEN <<Base64Part("preview_mask_to_save",
                              options.previewMaskToSave, PreviewMaskJpeg)>>
            ELSE <<>>)
        \o (IF Truthy(options.sessionId)
            THEN <<TextPart("session_id", options.sessionId.s)>>
            ELSE <<>>)
        \o <<TextPart("remove_text", RemoveTextValue(options.removeText))>>]

----------------------------------------------------------------------------
(* Responses and errors *)

\* A JSON body as the two operations read it.  tag "undefined": no body.
NoImage == [tag |-> "undefined", image |-> Undef, mask |-> Undef,
            watermark_mask |-> Undef]
EditedImage(image, mask, wm) ==
    [tag |-> "object", image |-> image, mask |-> mask, watermark_mask |-> wm]
NoData == [tag |-> "undefined", session_id |-> Undef, edited_image |-> NoImage,
           large_image_to_save |-> Undef, message |-> Undef]
Data(sid, edited, large, message) ==
    [tag |-> "object", session_id |-> sid, edited_image |-> edited,
     large_image_to_save |-> large, message |-> message]

\* An HTTP response (error.response, or the value axios.post resolves to).
NoResponse == [present |-> FALSE, status |-> 0, statusText |-> <<>>,
               data |-> NoData]
Response(status, statusText, data) ==
    [present |-> TRUE, status |-> status, statusText |-> statusText,
     data |-> data]

\* An error object: its class, its message, and the response it carries
\* (only an AxiosError that received one carries one).
NoError == [name |-> "none", message |-> <<>>, response |-> NoResponse]
NewError(message) ==
    [name |-> "Error", message |-> message, response |-> NoResponse]
AxiosError(message, response) ==
    [name |-> "AxiosError", message |-> message, response |-> response]
TypeErrorMessage == <<"Cannot", "read", "properties", "of", "undefined">>
NewTypeError == [name |-> "TypeError", message |-> TypeErrorMessage,
                 response |-> NoResponse]

\* axios.isAxiosError(error)
isAxiosError(error) == error.name = "AxiosError"

\* The state of the promise of one axios.post.
Pending == [kind |-> "pending", response |-> NoResponse, error |-> NoError]
Fulfilled(response) ==
    [kind |-> "fulfilled", response |-> response, error |-> NoError]
Rejected(error) ==
    [kind |-> "rejected", response |-> NoResponse, error |-> error]

NoResult == [none |-> TRUE]

\* Faulty variant of EraseMap: the two masks are exchanged.
EraseMapSwapped(responseData) ==
    IF responseData.tag = "undefined" \/ responseData.edited_image.tag = "undefined"
    THEN [ok |-> FALSE, result |-> NoResult]
    ELSE [ok |-> TRUE,
          result |-> [maskBase |-> responseData.edited_image.watermark_mask,
                      sessionId |-> responseData.session_id,
                      imageBase64 |-> responseData.edited_image.image,
                      watermarkMask |-> responseData.edited_image.mask]]

\* The return statement of eraseWatermark.  Reading a property of an undefined
\* body, or of an undefined edited_image, throws a TypeError.
EraseMap(responseData) ==
    IF responseData.tag = "undefined" \/ responseData.edited_image.tag = "undefined"
    THEN [ok |-> FALSE, result |-> NoResult]
    ELSE [ok |-> TRUE,
          result |-> [maskBase |-> responseData.edited_image.mask,
                      sessionId |-> responseData.session_id,
                      imageBase64 |-> responseData.edited_image.image,
                      watermarkMask |-> responseData.edited_image.watermark_mask]]

\* The return statement of saveLargeImage.
SaveMap(responseData) ==
    IF responseData.tag = "undefined"
    THEN [ok |-> FALSE, result |-> NoResult]
    ELSE [ok |-> TRUE,
          result |-> [largeImageToSave |-> responseData.large_image_to_save]]

\* Faulty variant of ErrorText: the transport's own message is preferred.
ErrorTextTransportFirst(error) ==
    IF error.message # <<>> THEN error.message
    ELSE error.response.data.message.s

\* error.response?.data?.message || error.message
ErrorText(error) ==
    IF Truthy(error.response.data.message)
    THEN error.response.data.message.s
    ELSE error.message

\* What console.error receives in the catch block.
LogEntry(error) ==
    [status |-> error.response.status,
     statusText |-> error.response.statusText,
     data |-> error.response.data,
     label |-> "API Error Details:",
     defined |-> error.response.present]

\* Faulty variant of Catch: the caught error is logged and thrown again as
\* it is.
CatchRethrow(error) ==
    [raised |-> error,
     logged |-> IF isAxiosError(error) THEN <<LogEntry(error)>> ELSE <<>>]

\* The catch block of both operations: [raised, logged].
Catch(error) ==
    IF isAxiosError(error)
    THEN [raised |-> NewError(ApiErrorPrefix \o ErrorText(error)),
          logged |-> <<LogEntry(error)>>]
    ELSE [raised |-> error, logged |-> <<>>]

\* The try block from the await on, for a settled promise and the mapping of
\* the operation: [pc, result, error, logged].
Finish(settled, mapped) ==
    IF settled.kind = "fulfilled" /\ mapped.ok
    THEN [error |-> NoError,
          result |-> mapped.result,
          logged |-> <<>>,
          pc |-> "completed"]
    ELSE LET c == Catch(IF settled.kind = "fulfilled" THEN NewTypeError
                        ELSE settled.error)
         IN [error |-> c.raised,
             result |-> NoResult,
             logged |-> c.logged,
             pc |-> "failed"]

----------------------------------------------------------------------------
(* The environment: callers' inputs and the remote service's answers *)

ApiKeys == {"key-1", "key-2"}

ImageSources ==
    {Undef} \cup {Str(s) : s \in Strings} \cup {Buf(<<>>), Buf(<<105>>)}
Base64Texts == {Undef, Str(<<"a", "a">>)}
BrushPaths == {Undef, Str(<<"a", "/", "a">>)}
SessionIds == {Undef, Str(<<>>), Str(<<"abc">>)}
RemoveTexts == {NoBool, Bool(TRUE), Bool(FALSE)}

\* Every EraseWatermarkOptions / SaveLargeImageOptions over the sets above.
EraseOptions ==
    {Options(i, Undef, mb, br, Undef, Undef, sid, rt) :
        i \in ImageSources, mb \in Base64Texts, br \in BrushPaths,
        sid \in SessionIds, rt \in RemoveTexts}
SaveOptions ==
    {Options(Undef, i, Undef, Undef, pi, pm, sid, rt) :
        i \in ImageSources, pi \in Base64Texts, pm \in Base64Texts,
        sid \in SessionIds, rt \in RemoveTexts}

\* A few option objects, for runs with two calls in flight.
EraseSamples ==
    {Options(Str(<<"a", ".", "a">>), Undef, Undef, Undef, Undef, Undef, Undef, NoBool),
     Options(Undef, Undef, Undef, Undef, Undef, Undef, Str(<<"abc">>), Bool(FALSE)),
     Options(Buf(<<105>>), Undef, Str(<<"a", "a">>), Undef, Undef, Undef,
             Str(<<"xyz">>), Bool(TRUE)),
     Options(Undef, Undef, Undef, Str(<<"a">>), Undef, Undef, Undef, NoBool)}
SaveSamples ==
    {Options(Undef, Undef, Undef, Undef, Str(<<"a", "a">>), Undef,
             Str(<<"abc">>), NoBool),
     Options(Undef, Str(<<"a", "/", "a">>), Undef, Undef, Undef,
             Str(<<"/", "/">>), Str(<<"xyz">>), Bool(FALSE)),
     Options(Undef, Undef, Undef, Undef, Undef, Undef, Undef, NoBool)}

\* JSON bodies of the two endpoints.
EraseBodies ==
    {Data(Str(<<"abc">>),
          EditedImage(Str(<<"A">>), Str(<<"B">>), Str(<<"C">>)), Undef, Undef),
     Data(Str(<<"xyz">>),
          EditedImage(Str(<<"D">>), Str(<<"E">>), Str(<<"F">>)), Undef, Undef)}
SaveBodies ==
    {Data(Undef, NoImage, Str(<<"X">>), Undef),
     Data(Undef, NoImage, Str(<<"Y">>), Undef)}

\* Error bodies: a message, an empty message, no message field.
ErrorBodies ==
    {Data(Undef, NoImage, Undef, Str(<<"quota", "exceeded">>)),
     Data(Undef, NoImage, Undef, Str(<<>>)),
     Data(Undef, NoImage, Undef, Undef)}

\* axios' own message for a response outside 2xx, and for no response.
StatusMessage == <<"Request", "failed", "with", "status", "code">>
NetworkMessage == <<"Network", "Error">>

\* How the promise of a POST can settle: a 2xx response with a body of either
\* endpoint's shape or with none; an AxiosError with a non-2xx response; an
\* AxiosError without a response.
Settlements ==
    {Fulfilled(Response(200, <<"OK">>, d)) :
        d \in EraseBodies \cup SaveBodies \cup {NoData}}
    \cup {Rejected(AxiosError(StatusMessage,
                              Response(402, <<"Payment", "Required">>, d))) :
            d \in ErrorBodies \cup {NoData}}
    \cup {Rejected(AxiosError(NetworkMessage, NoResponse))}

----------------------------------------------------------------------------
(* State *)

VARIABLES
    apiKey,     \* this.apiKey
    calls,      \* per call: operation, options, position, result, error
    posted,     \* the POST requests issued, in order
    promises,   \* per call: the promise of its axios.post
    log         \* what console.error has received, in order

vars == <<apiKey, calls, posted, promises, log>>

NotStarted ==
    [options |-> Options(Undef, Undef, Undef, Undef, Undef, Undef, Undef, NoBool),
     error |-> NoError,
     result |-> NoResult,
     pc |-> "notStarted",
     op |-> "none",
     existed |-> FALSE]

\* new Dewatermark(apiKey), no call made yet.
Init ==
    /\ apiKey \in ApiKeys
    /\ calls = [c \in Calls |-> NotStarted]
    /\ posted = <<>>
    /\ promises = [c \in Calls |-> Pending]
    /\ log = <<>>

\* axios.post(url, formData, {headers: {'x-api-key': this.apiKey, ...}})
Request(c, url, key, parts) ==
    [url |-> url,
     call |-> c,
     xApiKey |-> key,
     body |-> parts]

\* The call record once the synchronous part of a call has run, up to the
\* await: a failed build has thrown out of the call (the throw is outside the
\* try block), otherwise the call waits for its POST.
Started(op, options, exists, form) ==
    [options |-> options,
     error |-> IF form.ok THEN NoError ELSE NewError(ConfigMessage),
     result |-> NoResult,
     pc |-> IF form.ok THEN "inFlight" ELSE "failed",
     op |-> op,
     existed |-> exists]

\* The requests the synchronous part issues: one axios.post of the form that
\* was built, none when the build threw.
Posts(c, url, key, form) ==
    IF form.ok THEN <<Request(c, url, key, form.parts)>> ELSE <<>>

\* fs.existsSync is consulted only for a non-empty string.
Consulted(image) == IsString(image) /\ Truthy(image)

eraseWatermark(c, options, exists) ==
    /\ calls[c].pc = "notStarted"
    /\ LET e == exists /\ Consulted(options.originalPreviewImage)
           form == EraseForm(options, e)
       IN /\ calls' = [calls EXCEPT
                          ![c] = Started("eraseWatermark", options, e, form)]
          /\ posted' = posted \o Posts(c, eraseUrl, apiKey, form)
    /\ UNCHANGED <<apiKey, promises, log>>

saveLargeImage(c, options, exists) ==
    /\ calls[c].pc = "notStarted"
    /\ LET e == exists /\ Consulted(options.originalLargeImage)
           form == SaveForm(options, e)
       IN /\ calls' = [calls EXCEPT
                          ![c] = Started("saveLargeImage", options, e, form)]
          /\ posted' = posted \o Posts(c, saveLargeImageUrl, apiKey, form)
    /\ UNCHANGED <<apiKey, promises, log>>

\* The transport settles the promise of call c's POST.
Settle(c, s) ==
    /\ calls[c].pc = "inFlight"
    /\ promises[c] = Pending
    /\ promises' = [promises EXCEPT ![c] = s]
    /\ UNCHANGED <<apiKey, calls, posted, log>>

\* Faulty variant of Awaited: the response is kept in a field of the instance,
\* so a call reads the response that arrived last.
AwaitedLatest(c) ==
    IF promises[c] = Pending THEN Pending
    ELSE promises[Max({d \in Calls : promises[d] # Pending})]

\* What the await of call c yields: the settlement of its own promise.
Awaited(c) == promises[c]

\* Faulty variant of eraseResume: a rejected request is sent again.
eraseResumeRetry(c) ==
    /\ calls[c].pc = "inFlight"
    /\ calls[c].op = "eraseWatermark"
    /\ promises[c].kind = "rejected"
    /\ posted' = posted \o SelectSeq(posted, LAMBDA r : r.call = c)
    /\ promises' = [promises EXCEPT ![c] = Pending]
    /\ UNCHANGED <<apiKey, calls, log>>

\* eraseWatermark resumes after its await.
eraseResume(c) ==
    /\ calls[c].pc = "inFlight"
    /\ calls[c].op = "eraseWatermark"
    /\ Awaited(c) # Pending
    /\ LET f == Finish(Awaited(c), EraseMap(Awaited(c).response.data)) IN
        /\ calls' = [calls EXCEPT ![c].pc = f.pc, ![c].result = f.result,
                                  ![c].error = f.error]
        /\ log' = log \o f.logged
    /\ UNCHANGED <<apiKey, posted, promises>>

\* saveLargeImage resumes after its await.
saveResume(c) ==
    /\ calls[c].pc = "inFlight"
    /\ calls[c].op = "saveLargeImage"
    /\ Awaited(c) # Pending
    /\ LET f == Finish(Awaited(c), SaveMap(Awaited(c).response.data)) IN
        /\ calls' = [calls EXCEPT ![c].pc = f.pc, ![c].result = f.result,
                                  ![c].error = f.error]
        /\ log' = log \o f.logged
    /\ UNCHANGED <<apiKey, posted, promises>>

\* The option objects a caller may start call c with: none once it has started.
Startable(c, optionSet) == IF calls[c].pc = "notStarted" THEN optionSet ELSE {}

\* Two calls on one instance, issued and settled in any order.
Next ==
    \E c \in Calls :
        \/ \E o \in Startable(c, EraseSamples), e \in BOOLEAN :
              eraseWatermark(c, o, e)
        \/ \E o \in Startable(c, SaveSamples), e \in BOOLEAN :
              saveLargeImage(c, o, e)
        \/ \E s \in Settlements : Settle(c, s)
        \/ eraseResume(c)
        \/ saveResume(c)

Spec == Init /\ [][Next]_vars

\* One call, over every option object.
NextBuild ==
    \/ \E o \in Startable(1, EraseOptions), e \in BOOLEAN :
          eraseWatermark(1, o, e)
    \/ \E o \in Startable(1, SaveOptions), e \in BOOLEAN :
          saveLargeImage(1, o, e)
    \/ \E s \in Settlements : Settle(1, s)
    \/ eraseResume(1)
    \/ saveResume(1)

SpecBuild == Init /\ [][NextBuild]_vars

----------------------------------------------------------------------------
(* Vocabulary of the properties *)

\* The POST requests call c has issued.
RequestsOf(c) == SelectSeq(posted, LAMBDA r : r.call = c)

\* The parts of a form body carrying a field name.
PartsNamed(parts, name) == {i \in 1..Len(parts) : parts[i].name = name}

HasStarted(c) == calls[c].op # "none"
IsErase(c) == calls[c].op = "eraseWatermark"
IsSave(c) == calls[c].op = "saveLargeImage"

\* The call has run its continuation after the await.
Resumed(c) == calls[c].pc \in {"completed", "failed"} /\ promises[c] # Pending

\* The call was answered with an AxiosError and has run its catch block.
TransportFailed(c) == Resumed(c) /\ promises[c].kind = "rejected"

----------------------------------------------------------------------------
(* Properties of payload construction (SpecBuild) *)

\* eraseWatermark was called with neither an image source nor a session id.
NoImageReference(c) ==
    /\ IsErase(c)
    /\ ~Truthy(calls[c].options.originalPreviewImage)
    /\ ~Truthy(calls[c].options.sessionId)

\* C1: an eraseWatermark call whose options hold neither an image source nor
\* a session identifier fails with the configuration error, whatever its other
\* options; it issues no POST, the error is the configuration error itself
\* (not an "API Error: ..." wrapper), and nothing is written to the log.
C1_ConfigErrorBeforeNetwork ==
    \A c \in Calls :
        NoImageReference(c) =>
            /\ calls[c].pc = "failed"
            /\ calls[c].error.name = "Error"
            /\ calls[c].error.message = ConfigMessage
            /\ ~Contains(calls[c].error.message, ApiErrorPrefix)
            /\ RequestsOf(c) = <<>>
            /\ promises[c] = Pending
            /\ log = <<>>

\* C1 witness: such a call that also passed a mask, a brush and removeText.
C1_Witness ==
    \E c \in Calls :
        /\ NoImageReference(c)
        /\ Truthy(calls[c].options.maskBase)
        /\ Truthy(calls[c].options.maskBrush)
        /\ calls[c].options.removeText = Bool(FALSE)
        /\ calls[c].pc = "failed"

\* The image-source option of a started call, and the field it is sent under.
ImageOption(c) ==
    IF IsErase(c) THEN calls[c].options.originalPreviewImage
    ELSE calls[c].options.originalLargeImage
ImageField(c) ==
    IF IsErase(c) THEN "original_preview_image" ELSE "original_large_image"

\* The image part of the one request of call c, when it has exactly one.
ImagePartOf(c) ==
    LET body == RequestsOf(c)[1].body
    IN body[CHOOSE i \in PartsNamed(body, ImageField(c)) : TRUE]

HasOneImagePart(c) ==
    /\ Len(RequestsOf(c)) = 1
    /\ Cardinality(PartsNamed(RequestsOf(c)[1].body, ImageField(c))) = 1

\* Whether a file name has an extension: a dot with text on both sides.
ExtensionBearing(segment) ==
    \E i \in 2..(Len(segment) - 1) : segment[i] = "."

\* C7 as stated: an existing path is streamed under its final segment, and
\* under image.png when the final segment bears no extension; a Buffer is
\* attached as it is under image.png; every other string is decoded from
\* base64 and attached under image.png.
C7_Original ==
    \A c \in Calls :
        (HasStarted(c) /\ Truthy(ImageOption(c))) =>
            /\ HasOneImagePart(c)
            /\ LET v == ImageOption(c)
                   part == ImagePartOf(c)
               IN IF IsString(v) /\ calls[c].existed
                  THEN /\ part.kind = "stream"
                       /\ part.path = v.s
                       /\ part.filename =
                            IF ExtensionBearing(LastSegment(v.s))
                            THEN LastSegment(v.s) ELSE ImagePng
                  ELSE /\ part.kind = "buffer"
                       /\ part.filename = ImagePng
                       /\ part.bytes = IF IsBuffer(v) THEN v.b
                                       ELSE Base64Decode(v.s)

\* C7 (amended): for a non-empty image-source string that names an existing
\* path the part streams that path, and its file name is the text after the
\* last '/' whenever that text is non-empty, with or without an extension;
\* image.png is used only when the path ends in '/'.  A Buffer is attached as
\* it is under image.png.  A non-empty string that is not an existing path is
\* decoded from base64 and attached under image.png.  Existence decides before
\* base64 is considered.
C7_ImageSource ==
    \A c \in Calls :
        (HasStarted(c) /\ Truthy(ImageOption(c))) =>
            /\ HasOneImagePart(c)
            /\ LET v == ImageOption(c)
                   part == ImagePartOf(c)
               IN IF IsString(v) /\ calls[c].existed
                  THEN /\ part.kind = "stream"
                       /\ part.path = v.s
                       /\ part.filename =
                            IF v.s[Len(v.s)] = "/" THEN ImagePng
                            ELSE LastSegment(v.s)
                  ELSE /\ part.kind = "buffer"
                       /\ part.filename = ImagePng
                       /\ part.bytes = IF IsBuffer(v) THEN v.b
                                       ELSE Base64Decode(v.s)

\* C7 witness: the existing path "/a" (no extension) was streamed under the
\* file name "a".
C7_Witness ==
    \E c \in Calls :
        /\ HasStarted(c)
        /\ ImageOption(c) = Str(<<"/", "a">>)
        /\ calls[c].existed
        /\ HasOneImagePart(c)
        /\ ImagePartOf(c).kind = "stream"
        /\ ImagePartOf(c).filename = <<"a">>

\* C8: every request body of either operation holds exactly one remove_text
\* field, a text field, "true" when removeText is unset or true and "false"
\* when it is false.
C8_RemoveText ==
    \A i \in 1..Len(posted) :
        LET body == posted[i].body
            removeText == calls[posted[i].call].options.removeText
            fields == PartsNamed(body, "remove_text")
        IN /\ Cardinality(fields) = 1
           /\ \A j \in fields :
                /\ body[j].kind = "text"
                /\ body[j].text =
                     IF removeText = Bool(FALSE)
                     THEN <<"f", "a", "l", "s", "e">>
                     ELSE <<"t", "r", "u", "e">>

\* C8 witness: a request of a call that left removeText unset.
C8_Witness ==
    \E i \in 1..Len(posted) :
        /\ calls[posted[i].call].options.removeText = NoBool
        /\ \E j \in 1..Len(posted[i].body) :
              /\ posted[i].body[j].name = "remove_text"
              /\ posted[i].body[j].text = <<"t", "r", "u", "e">>

\* The field names saveLargeImage must send for its options.
SaveFieldsExpected(options) ==
    {"remove_text"}
    \cup (IF Truthy(options.originalLargeImage)
          THEN {"original_large_image"} ELSE {})
    \cup (IF Truthy(options.previewImageToSave)
          THEN {"preview_image_to_save"} ELSE {})
    \cup (IF Truthy(options.previewMaskToSave)
          THEN {"preview_mask_to_save"} ELSE {})
    \cup (IF Truthy(options.sessionId) THEN {"session_id"} ELSE {})

\* C9: every saveLargeImage call sends its request, whatever its options (no
\* local precondition), and the body holds one part per option that is set
\* (a non-empty value), the remove_text field, and nothing else.
C9_SaveParts ==
    \A c \in Calls :
        IsSave(c) =>
            /\ Len(RequestsOf(c)) = 1
            /\ calls[c].pc # "failed" \/ promises[c] # Pending
            /\ LET body == RequestsOf(c)[1].body
                   expected == SaveFieldsExpected(calls[c].options)
               IN /\ {body[j].name : j \in 1..Len(body)} = expected
                  /\ Len(body) = Cardinality(expected)

\* C9 witness: only sessionId and previewImageToSave set; the body is those two
\* parts and the default remove_text.
C9_Witness ==
    \E c \in Calls :
        /\ IsSave(c)
        /\ calls[c].options =
             Options(Undef, Undef, Undef, Undef, Str(<<"a", "a">>), Undef,
                     Str(<<"abc">>), NoBool)
        /\ Len(RequestsOf(c)) = 1
        /\ RequestsOf(c)[1].body =
             <<BufferPart("preview_image_to_save", <<105>>, PreviewImageJpeg),
               TextPart("session_id", <<"abc">>),
               TextPart("remove_text", <<"t", "r", "u", "e">>)>>

\* C10: every request of eraseWatermark carries exactly one image reference:
\* either one original_preview_image binary part and no session_id, or no
\* image part and one session_id text field holding the caller's sessionId
\* verbatim; session_id is sent only when no image source was supplied.
C10_OneImageReference ==
    \A i \in 1..Len(posted) :
        posted[i].url = eraseUrl =>
            LET body == posted[i].body
                options == calls[posted[i].call].options
                images == PartsNamed(body, "original_preview_image")
                sessions == PartsNamed(body, "session_id")
            IN /\ Cardinality(images) + Cardinality(sessions) = 1
               /\ \A j \in images : body[j].kind \in {"stream", "buffer"}
               /\ \A j \in sessions :
                    /\ body[j].kind = "text"
                    /\ body[j].text = options.sessionId.s
                    /\ ~Truthy(options.originalPreviewImage)

\* C10 witness: a call that passed both an image and a sessionId sent the image
\* alone.
C10_Witness ==
    \E i \in 1..Len(posted) :
        /\ posted[i].url = eraseUrl
        /\ Truthy(calls[posted[i].call].options.originalPreviewImage)
        /\ Truthy(calls[posted[i].call].options.sessionId)
        /\ PartsNamed(posted[i].body, "session_id") = {}

----------------------------------------------------------------------------
(* Properties of the response mapper and of the calls (Spec) *)

\* The AxiosError call c's POST was rejected with.
Rejection(c) == promises[c].error

\* C2 as stated: after a transport failure the raised error carries the remote
\* status, status text and body when a response was received, and the
\* transport failure description otherwise.
C2_Original ==
    \A c \in Calls :
        TransportFailed(c) =>
            IF Rejection(c).response.present
            THEN /\ calls[c].error.response.present
                 /\ calls[c].error.response.status = Rejection(c).response.status
                 /\ calls[c].error.response.statusText
                        = Rejection(c).response.statusText
                 /\ calls[c].error.response.data = Rejection(c).response.data
            ELSE Contains(calls[c].error.message, Rejection(c).message)

\* C2 (amended): after a transport failure the raised error is one uniform
\* Error that carries a message only: "API Error: " followed by the remote
\* body's message when that is non-empty and by the transport failure
\* description otherwise.  The remote status, status text and body are not on
\* the raised error; they are written to the log before it is raised
\* (undefined when no response was received).
C2_UniformError ==
    \A c \in Calls :
        TransportFailed(c) =>
            /\ calls[c].error.name = "Error"
            /\ ~calls[c].error.response.present
            /\ calls[c].error.message =
                  ApiErrorPrefix
                  \o (IF Truthy(Rejection(c).response.data.message)
                      THEN Rejection(c).response.data.message.s
                      ELSE Rejection(c).message)
            /\ \E i \in 1..Len(log) :
                  /\ log[i].defined = Rejection(c).response.present
                  /\ log[i].status = Rejection(c).response.status
                  /\ log[i].statusText = Rejection(c).response.statusText
                  /\ log[i].data = Rejection(c).response.data

\* C2 witness: a call failed on a 402 response; its error has no status while
\* the log has it.
C2_Witness ==
    \E c \in Calls :
        /\ TransportFailed(c)
        /\ Rejection(c).response.present
        /\ Rejection(c).response.status = 402
        /\ ~calls[c].error.response.present
        /\ \E i \in 1..Len(log) : log[i].status = 402

\* C3: after a transport failure, the raised message contains the remote
\* body's message whenever the body supplies one (a non-empty message field),
\* and contains the transport failure description exactly when it does not.
C3_RemoteMessagePreferred ==
    \A c \in Calls :
        TransportFailed(c) =>
            LET remote == Rejection(c).response.data.message IN
            /\ Truthy(remote) => Contains(calls[c].error.message, remote.s)
            /\ Contains(calls[c].error.message, Rejection(c).message)
                  <=> ~Truthy(remote)

\* C3 witness: both operations failed on a body { message: "quota exceeded" }
\* with an error message containing "quota exceeded".
C3_Witness ==
    \E c, d \in Calls :
        /\ IsErase(c) /\ IsSave(d)
        /\ TransportFailed(c) /\ TransportFailed(d)
        /\ Rejection(c).response.data.message = Str(<<"quota", "exceeded">>)
        /\ Rejection(d).response.data.message = Str(<<"quota", "exceeded">>)
        /\ Contains(calls[c].error.message, <<"quota", "exceeded">>)
        /\ Contains(calls[d].error.message, <<"quota", "exceeded">>)

\* Payload construction of call c succeeded.
Built(c) ==
    IF IsErase(c) THEN ~NoImageReference(c) ELSE IsSave(c)

\* C4: a call issues at most one POST over its lifetime: exactly one when
\* payload construction succeeded, none when it failed locally (and none
\* before it starts).  Once the request has succeeded or failed and the call
\* has resumed, the call is completed or failed and the request was still sent
\* once.  A failure is never a success: a completed call had a fulfilled
\* request, and a rejected one ends failed with its error raised.
C4_SinglePost ==
    \A c \in Calls :
        /\ Len(RequestsOf(c)) = IF Built(c) THEN 1 ELSE 0
        /\ (HasStarted(c) /\ ~Built(c)) =>
              calls[c].pc = "failed" /\ calls[c].error # NoError
        /\ promises[c] # Pending => Len(RequestsOf(c)) = 1
        /\ calls[c].pc = "completed" =>
              promises[c].kind = "fulfilled" /\ calls[c].error = NoError
        /\ calls[c].pc = "failed" =>
              calls[c].error # NoError /\ calls[c].result = NoResult
        /\ (promises[c].kind = "rejected" /\ calls[c].pc # "inFlight") =>
              calls[c].pc = "failed"

\* C4 witness: one call was rejected and has failed, the other failed locally;
\* one request in all.
C4_Witness ==
    \E c, d \in Calls :
        /\ TransportFailed(c)
        /\ HasStarted(d) /\ ~Built(d)
        /\ Len(posted) = 1

\* What call c must end with, given only its own operation and the settlement
\* of its own POST.
OwnOutcome(c) ==
    Finish(promises[c],
           IF IsErase(c) THEN EraseMap(promises[c].response.data)
           ELSE SaveMap(promises[c].response.data))

\* What call c must have sent, given only its own options.
OwnForm(c) ==
    IF IsErase(c) THEN EraseForm(calls[c].options, calls[c].existed)
    ELSE SaveForm(calls[c].options, calls[c].existed)

\* The state part of C5: outcomes and request bodies as just defined, and the
\* instance's key on every request.
C5_OwnResponseOwnOptions ==
    /\ \A c \in Calls :
          Resumed(c) =>
              /\ calls[c].pc = OwnOutcome(c).pc
              /\ calls[c].result = OwnOutcome(c).result
              /\ calls[c].error = OwnOutcome(c).error
    /\ \A i \in 1..Len(posted) :
          /\ posted[i].body = OwnForm(posted[i].call).parts
          /\ posted[i].xApiKey = apiKey

\* C5: under every interleaving of two calls on one instance, each call's
\* result or error is the one its own options and its own response determine,
\* each request body is built from its own call's options, every request
\* carries the instance's API key, and the API key is never written.
C5_Independent ==
    [](C5_OwnResponseOwnOptions) /\ [][apiKey' = apiKey]_vars

\* C5 witness: the call issued second completed first, from its own body, while
\* the call issued first holds a different, already received body.
C5_Witness ==
    \E c, d \in Calls :
        /\ Len(posted) = 2 /\ posted[1].call = c /\ posted[2].call = d
        /\ c # d
        /\ IsErase(c) /\ IsErase(d)
        /\ calls[d].pc = "completed"
        /\ calls[c].pc = "inFlight"
        /\ promises[c].kind = "fulfilled"
        /\ promises[c].response.data # promises[d].response.data
        /\ calls[d].result.sessionId = promises[d].response.data.session_id

\* C6: a completed call's result is its response body with the fields renamed
\* and every value unchanged, and a 2xx response with a body of the operation's
\* shape completes the call.
C6_FieldRenaming ==
    \A c \in Calls :
        LET body == promises[c].response.data IN
        /\ (Resumed(c) /\ promises[c].kind = "fulfilled" /\ body.tag = "object"
              /\ (IsErase(c) => body.edited_image.tag = "object")) =>
              calls[c].pc = "completed"
        /\ (calls[c].pc = "completed" /\ IsErase(c)) =>
              /\ DOMAIN calls[c].result =
                    {"sessionId", "imageBase64", "maskBase", "watermarkMask"}
              /\ calls[c].result.sessionId = body.session_id
              /\ calls[c].result.imageBase64 = body.edited_image.image
              /\ calls[c].result.maskBase = body.edited_image.mask
              /\ calls[c].result.watermarkMask = body.edited_image.watermark_mask
        /\ (calls[c].pc = "completed" /\ IsSave(c)) =>
              /\ DOMAIN calls[c].result = {"largeImageToSave"}
              /\ calls[c].result.largeImageToSave = body.large_image_to_save

\* C6 witness: the spec's two examples, one call each.
C6_Witness ==
    \E c, d \in Calls :
        /\ IsErase(c) /\ IsSave(d)
        /\ promises[c].response.data =
             Data(Str(<<"abc">>),
                  EditedImage(Str(<<"A">>), Str(<<"B">>), Str(<<"C">>)),
                  Undef, Undef)
        /\ calls[c].pc = "completed"
        /\ calls[c].result.sessionId = Str(<<"abc">>)
        /\ calls[c].result.imageBase64 = Str(<<"A">>)
        /\ calls[c].result.maskBase = Str(<<"B">>)
        /\ calls[c].result.watermarkMask = Str(<<"C">>)
        /\ promises[d].response.data.large_image_to_save = Str(<<"X">>)
        /\ calls[d].pc = "completed"
        /\ calls[d].result.largeImageToSave = Str(<<"X">>)

====
